---- MODULE Spec2Model ----
(***************************************************************************)
(* Model of automated_report.py: main() runs load_data, analyze_data and   *)
(* build_pdf_report strictly in sequence.                                  *)
(*                                                                         *)
(* A JSON object (Python dict) is a function whose DOMAIN is the set of    *)
(* keys that are present, so dict.get(key, default) is Get below.  A JSON  *)
(* array is a sequence.  The insertion-ordered dict category_counts is a   *)
(* sequence of [key, value] entries.  The float reading_list_progress is   *)
(* kept as the exact fraction num/den.                                     *)
(***************************************************************************)
EXTENDS Integers, Sequences, FiniteSets, TLC

VARIABLES pc, fileState, fileDoc, data, analysis, report, outFile, stdout,
          calls, err, image

vars == <<pc, fileState, fileDoc, data, analysis, report, outFile, stdout,
          calls, err, image>>

(* ------------------------------ bounds -------------------------------- *)
MaxArticles == 6
MaxViews == 1
MaxCategories == 3
MaxReadingList == 4
MaxHistory == 3
MaxPrefItems == 2

(* ------------------------- program constants --------------------------- *)
DATA_FILE == "sample_news_data.json"
REPORT_FILE == "news_report.pdf"
TopN == 5

(* ------------------------------ helpers -------------------------------- *)
\* The empty dict {}.
EmptyRec == [k \in {} |-> 0]

\* dict.get(k, d)
Get(r, k, d) == IF k \in DOMAIN r THEN r[k] ELSE d

\* Python truthiness of a string value as used by `if rl.get('completedAt')`;
\* a missing key yields None, which Get renders as "".
Truthy(s) == s # ""

Min(a, b) == IF a <= b THEN a ELSE b

\* key=lambda x: x.get('views', 0)
ViewsKey(x) == Get(x, "views", 0)

(* ------------------------- analyze_data pieces ------------------------- *)
\* One step of the stable descending sort: x, which comes later in the
\* input than everything in s, is placed after every element whose key is
\* greater than or equal to its own.
InsertDescUnstable(s, x) ==
    LET before == {i \in 1..Len(s) : ViewsKey(s[i]) > ViewsKey(x)}
        n == Cardinality(before)
    IN  SubSeq(s, 1, n) \o <<x>> \o SubSeq(s, n + 1, Len(s))

InsertDesc(s, x) ==
    LET before == {i \in 1..Len(s) : ViewsKey(s[i]) >= ViewsKey(x)}
        n == Cardinality(before)
    IN  SubSeq(s, 1, n) \o <<x>> \o SubSeq(s, n + 1, Len(s))

RECURSIVE SortedDesc(_)
\* sorted(articles, key=..., reverse=True)
SortedDesc(s) ==
    IF s = <<>> THEN <<>>
    ELSE InsertDesc(SortedDesc(SubSeq(s, 1, Len(s) - 1)), s[Len(s)])

\* sorted(...)[:5]
TopArticles(articles) ==
    LET sorted == SortedDesc(articles)
    IN  SubSeq(sorted, 1, Min(TopN, Len(sorted)))

\* category_counts[name] = count on an insertion-ordered dict: an existing
\* key keeps its position and takes the new value, a new key goes last.
SetItemAccumulate(d, k, v) ==
    IF \E i \in 1..Len(d) : d[i].key = k
    THEN [i \in 1..Len(d) |->
            IF d[i].key = k THEN [key |-> k, value |-> d[i].value + v] ELSE d[i]]
    ELSE Append(d, [key |-> k, value |-> v])

SetItem(d, k, v) ==
    IF \E i \in 1..Len(d) : d[i].key = k
    THEN [i \in 1..Len(d) |->
            IF d[i].key = k THEN [key |-> k, value |-> v] ELSE d[i]]
    ELSE Append(d, [key |-> k, value |-> v])

RECURSIVE CategoryCounts(_)
\* for category in categories: category_counts[category['name']] = ...
CategoryCounts(categories) ==
    IF categories = <<>> THEN <<>>
    ELSE LET c == categories[Len(categories)]
         IN  SetItem(CategoryCounts(SubSeq(categories, 1, Len(categories) - 1)),
                     c["name"], Get(c, "articleCount", 0))

\* category['name'] raises KeyError for a category record without a name.
RaisesKeyError(categories) ==
    \E i \in 1..Len(categories) : "name" \notin DOMAIN categories[i]

RECURSIVE CompletedCountPresent(_)
CompletedCountPresent(rl) ==
    IF rl = <<>> THEN 0
    ELSE CompletedCountPresent(Tail(rl))
         + (IF "completedAt" \in DOMAIN Head(rl) THEN 1 ELSE 0)

RECURSIVE CompletedCount(_)
\* sum(1 for rl in reading_list if rl.get('completedAt'))
CompletedCount(rl) ==
    IF rl = <<>> THEN 0
    ELSE CompletedCount(Tail(rl))
         + (IF Truthy(Get(Head(rl), "completedAt", "")) THEN 1 ELSE 0)

\* (completed / total_reading * 100) if total_reading > 0 else 0
ProgressPercent(completed, total) ==
    IF total > 0 THEN [num |-> completed * 100, den |-> total]
    ELSE [num |-> 0, den |-> 1]

RECURSIVE TotalTimeSpentClamped(_)
TotalTimeSpentClamped(rh) ==
    IF rh = <<>> THEN 0
    ELSE (IF Get(Head(rh), "timeSpent", 0) < 0 THEN 0
          ELSE Get(Head(rh), "timeSpent", 0))
         + TotalTimeSpentClamped(Tail(rh))

RECURSIVE TotalTimeSpentPresentOnly(_)
TotalTimeSpentPresentOnly(rh) ==
    IF rh = <<>> THEN 0
    ELSE IF "timeSpent" \in DOMAIN Head(rh)
         THEN Head(rh)["timeSpent"] + TotalTimeSpentPresentOnly(Tail(rh))
         ELSE 0

RECURSIVE TotalTimeSpent(_)
\* sum(rh.get('timeSpent', 0) for rh in reading_history)
TotalTimeSpent(rh) ==
    IF rh = <<>> THEN 0
    ELSE Get(Head(rh), "timeSpent", 0) + TotalTimeSpent(Tail(rh))

analyze_data(d) ==
    LET articles == Get(d, "articles", <<>>)
        categories == Get(d, "categories", <<>>)
        bookmarks == Get(d, "bookmarks", <<>>)
        reading_list == Get(d, "readingList", <<>>)
        user_preferences == Get(d, "userPreferences", EmptyRec)
        reading_history == Get(d, "readingHistory", <<>>)
    IN  [total_articles |-> Len(articles),
         top_articles |-> TopArticles(articles),
         category_counts |-> CategoryCounts(categories),
         total_bookmarks |-> Len(bookmarks),
         reading_list_progress |->
             ProgressPercent(CompletedCount(reading_list), Len(reading_list)),
         user_preferences |-> user_preferences,
         total_reading_history |-> Len(reading_history),
         total_time_spent |-> TotalTimeSpent(reading_history)]

(* ---------------------- build_pdf_report pieces ------------------------ *)
RECURSIVE Join(_, _)
\* sep.join(items)
Join(sep, items) ==
    IF items = <<>> THEN ""
    ELSE IF Len(items) = 1 THEN items[1]
    ELSE items[1] \o sep \o Join(sep, Tail(items))

\* f"{p:.1f}%" for a non-negative fraction p: one decimal, ties to even.
FormatProgress(p) ==
    LET q == (p.num * 10) \div p.den
        r == (p.num * 10) % p.den
        tenths == IF 2 * r > p.den \/ (2 * r = p.den /\ q % 2 = 1)
                  THEN q + 1 ELSE q
    IN  ToString(tenths \div 10) \o "." \o ToString(tenths % 10) \o "%"

SummaryTable(a) ==
    << <<"Total Articles", a.total_articles>>,
       <<"Total Bookmarks", a.total_bookmarks>>,
       <<"Total Reading List Items",
         ToString(Len(Get(a.user_preferences, "categories", <<>>)))
             \o " subscribed categories">>,
       <<"Reading List Completion", FormatProgress(a.reading_list_progress)>>,
       <<"Total Reading History Entries", a.total_reading_history>>,
       <<"Total Time Spent Reading (seconds)", a.total_time_spent>> >>

CategoryTable(a) ==
    << <<"Category", "Article Count">> >>
    \o [i \in 1..Len(a.category_counts) |->
           <<a.category_counts[i].key, a.category_counts[i].value>>]

TopArticlesTable(a) ==
    << <<"Title", "Author", "Category", "Views", "Read Time (mins)">> >>
    \o [i \in 1..Len(a.top_articles) |->
           LET article == a.top_articles[i]
           IN  <<Get(article, "title", "N/A"),
                 Get(article, "author", "N/A"),
                 Get(article, "category", "N/A"),
                 Get(article, "views", 0),
                 Get(article, "readTime", 0)>>]

\* The mark-up string of lines 181-187, with a sloppy variant that tests
\* key presence instead of list emptiness.
PrefsParagraphPresence(a) ==
    LET prefs == a.user_preferences
        subscribed_categories == Get(prefs, "categories", <<>>)
        subscribed_sources == Get(prefs, "sources", <<>>)
    IN  "<b>Subscribed Categories:</b> "
        \o (IF "categories" \in DOMAIN prefs
            THEN Join(", ", subscribed_categories) ELSE "None") \o "<br/>"
        \o "<b>Subscribed Sources:</b> "
        \o (IF "sources" \in DOMAIN prefs
            THEN Join(", ", subscribed_sources) ELSE "None") \o "<br/>"
        \o "<b>Font Size:</b> " \o Get(prefs, "fontSize", "Default") \o "<br/>"
        \o "<b>Theme:</b> " \o Get(prefs, "theme", "Not set") \o "<br/>"
        \o "<b>Notifications Enabled:</b> "
        \o (IF Get(prefs, "notifications", FALSE) THEN "Yes" ELSE "No")
        \o "<br/>"

PrefsParagraph(a) ==
    LET prefs == a.user_preferences
        subscribed_categories == Get(prefs, "categories", <<>>)
        subscribed_sources == Get(prefs, "sources", <<>>)
        font_size == Get(prefs, "fontSize", "Default")
        theme == Get(prefs, "theme", "Not set")
        notifications == Get(prefs, "notifications", FALSE)
    IN  "<b>Subscribed Categories:</b> "
        \o (IF subscribed_categories # <<>>
            THEN Join(", ", subscribed_categories) ELSE "None") \o "<br/>"
        \o "<b>Subscribed Sources:</b> "
        \o (IF subscribed_sources # <<>>
            THEN Join(", ", subscribed_sources) ELSE "None") \o "<br/>"
        \o "<b>Font Size:</b> " \o font_size \o "<br/>"
        \o "<b>Theme:</b> " \o theme \o "<br/>"
        \o "<b>Notifications Enabled:</b> "
        \o (IF notifications THEN "Yes" ELSE "No") \o "<br/>"

Spacer == [kind |-> "Spacer"]

\* The flowables appended to `elements`, in order.
Elements(a, report_date) ==
    << [kind |-> "Paragraph", text |-> "Automated News Content Reader Report"],
       Spacer,
       [kind |-> "Image"],
       Spacer,
       [kind |-> "Paragraph", text |-> "Report generated on: " \o report_date],
       [kind |-> "PageBreak"],
       [kind |-> "Paragraph", text |-> "Summary"],
       [kind |-> "Table", rows |-> SummaryTable(a)],
       Spacer,
       [kind |-> "Paragraph", text |-> "Articles Per Category"],
       [kind |-> "Table", rows |-> CategoryTable(a)],
       Spacer,
       [kind |-> "Paragraph", text |-> "Top 5 Articles by Views"],
       [kind |-> "Table", rows |-> TopArticlesTable(a)],
       Spacer,
       [kind |-> "Paragraph", text |-> "User Preferences Overview"],
       [kind |-> "Paragraph", text |-> PrefsParagraph(a)] >>

(* --------------------------- input documents --------------------------- *)
\* Sequences over S of length 0..n.
SeqUpTo(S, n) == UNION {[1..k -> S] : k \in 0..n}

\* A key that is either absent or bound to a value of S.
Opt(k, S) == {EmptyRec} \cup {k :> v : v \in S}

\* Article lists: the i-th article carries id i (so equal dicts at different
\* positions stay distinguishable) and an optional views.
ArticleLists ==
    UNION {{[i \in 1..k |-> ("id" :> i) @@ f[i]] :
               f \in [1..k -> Opt("views", 0..MaxViews)]} : k \in 0..MaxArticles}

CategoryNames == {"Tech", "Sports"}
Categories ==
    {n @@ c : n \in Opt("name", CategoryNames), c \in Opt("articleCount", {3, 7})}

ReadingListItems == Opt("completedAt", {"", "2024-01-15"})

HistoryItems == Opt("timeSpent", {-30, 0, 45, 120})

SourceNames == {"BBC", "Reuters"}
Preferences ==
    {c @@ s @@ f @@ t @@ n :
        c \in Opt("categories", SeqUpTo(CategoryNames, MaxPrefItems)),
        s \in Opt("sources", SeqUpTo(SourceNames, MaxPrefItems)),
        f \in Opt("fontSize", {"large"}),
        t \in Opt("theme", {"dark"}),
        n \in Opt("notifications", BOOLEAN)}

\* One fully populated sample of every collection.
SampleArticles ==
    << [id |-> 1, title |-> "Budget", author |-> "Ann", category |-> "Tech",
        views |-> 10, readTime |-> 4],
       [id |-> 2, views |-> 10],
       [id |-> 3, title |-> "Derby"] >>
SampleCategories == << [name |-> "Tech", articleCount |-> 3], [name |-> "Sports"] >>
SampleBookmarks == << [articleId |-> 1], [articleId |-> 3] >>
SampleReadingList == << [articleId |-> 1, completedAt |-> "2024-01-15"], [articleId |-> 2] >>
SamplePreferences == [categories |-> <<"Tech">>, notifications |-> TRUE]
SampleHistory == << [articleId |-> 1, timeSpent |-> 120], [articleId |-> 2] >>

\* Documents in which one collection ranges over its whole bounded domain
\* and the other keys are absent, plus every combination of present and
\* absent top-level keys over the samples.
Docs ==
    {"articles" :> a : a \in ArticleLists}
    \cup {"categories" :> c : c \in SeqUpTo(Categories, MaxCategories)}
    \cup {"readingList" :> r : r \in SeqUpTo(ReadingListItems, MaxReadingList)}
    \cup {"readingHistory" :> h : h \in SeqUpTo(HistoryItems, MaxHistory)}
    \cup {"userPreferences" :> p : p \in Preferences}
    \cup {a @@ c @@ b @@ r @@ p @@ h :
            a \in Opt("articles", {SampleArticles}),
            c \in Opt("categories", {SampleCategories}),
            b \in Opt("bookmarks", {SampleBookmarks}),
            r \in Opt("readingList", {SampleReadingList}),
            p \in Opt("userPreferences", {SamplePreferences}),
            h \in Opt("readingHistory", {SampleHistory})}

\* Values datetime.now().strftime("%B %d, %Y %H:%M") can take.
ReportDates == {"January 01, 2026 09:00", "November 05, 2026 11:09"}

(* ------------------------------ the run -------------------------------- *)
Init ==
    /\ pc = "start"
    /\ \/ fileState = "ok" /\ fileDoc \in Docs
       \/ fileState \in {"missing", "malformed"} /\ fileDoc = EmptyRec
    /\ data = EmptyRec
    /\ analysis = EmptyRec
    /\ report = <<>>
    /\ outFile \in {"absent", "stale"}
    /\ stdout = <<>>
    /\ calls = <<>>
    /\ err = ""
    /\ image = "unused"

\* main, lines 194-195, with load_data returning.
LoadOk ==
    /\ pc = "start"
    /\ fileState = "ok"
    /\ stdout' = Append(stdout, "Loading data...")
    /\ calls' = Append(calls, "load_data")
    /\ data' = fileDoc
    /\ pc' = "loaded"
    /\ UNCHANGED <<fileState, fileDoc, analysis, report, outFile, err, image>>

\* A load failure that is swallowed: the run goes on with an empty document.
LoadFailSwallowed ==
    /\ pc = "start"
    /\ fileState # "ok"
    /\ stdout' = Append(stdout, "Loading data...")
    /\ calls' = Append(calls, "load_data")
    /\ pc' = "loaded"
    /\ UNCHANGED <<fileState, fileDoc, data, analysis, report, outFile, err, image>>

\* main, lines 194-195, with open() or json.load() raising.
LoadFail ==
    /\ pc = "start"
    /\ fileState # "ok"
    /\ stdout' = Append(stdout, "Loading data...")
    /\ calls' = Append(calls, "load_data")
    /\ err' = IF fileState = "missing" THEN "FileNotFoundError" ELSE "JSONDecodeError"
    /\ pc' = "failed"
    /\ UNCHANGED <<fileState, fileDoc, data, analysis, report, outFile, image>>

\* main, lines 196-197, with analyze_data returning.
AnalyzeOk ==
    /\ pc = "loaded"
    /\ ~RaisesKeyError(Get(data, "categories", <<>>))
    /\ stdout' = Append(stdout, "Analyzing data...")
    /\ calls' = Append(calls, "analyze_data")
    /\ analysis' = analyze_data(data)
    /\ pc' = "analyzed"
    /\ UNCHANGED <<fileState, fileDoc, data, report, outFile, err, image>>

\* main, lines 196-197, with category['name'] raising.
AnalyzeFail ==
    /\ pc = "loaded"
    /\ RaisesKeyError(Get(data, "categories", <<>>))
    /\ stdout' = Append(stdout, "Analyzing data...")
    /\ calls' = Append(calls, "analyze_data")
    /\ err' = "KeyError"
    /\ pc' = "failed"
    /\ UNCHANGED <<fileState, fileDoc, data, analysis, report, outFile, image>>

\* main, lines 198-199, with doc.build fetching the logo and writing the file.
RenderOk ==
    /\ pc = "analyzed"
    /\ \E report_date \in ReportDates :
           report' = Elements(analysis, report_date)
    /\ stdout' = Append(stdout, "Generating PDF report...")
    /\ calls' = Append(calls, "build_pdf_report")
    /\ image' = "fetched"
    /\ outFile' = "written"
    /\ pc' = "rendered"
    /\ UNCHANGED <<fileState, fileDoc, data, analysis, err>>

\* main, lines 198-199, with the logo unreachable: the exception raised
\* while doc.build lays out the Image is not caught anywhere.
RenderFail ==
    /\ pc = "analyzed"
    /\ stdout' = Append(stdout, "Generating PDF report...")
    /\ calls' = Append(calls, "build_pdf_report")
    /\ image' = "unreachable"
    /\ err' = "OSError"
    /\ pc' = "failed"
    /\ UNCHANGED <<fileState, fileDoc, data, analysis, report, outFile>>

\* main, line 200.
Finish ==
    /\ pc = "rendered"
    /\ stdout' = Append(stdout, "Report generated successfully: " \o REPORT_FILE)
    /\ pc' = "done"
    /\ UNCHANGED <<fileState, fileDoc, data, analysis, report, outFile, calls,
                   err, image>>

Next ==
    \/ LoadOk
    \/ LoadFail
    \/ AnalyzeOk
    \/ AnalyzeFail
    \/ RenderOk
    \/ RenderFail
    \/ Finish

Spec == Init /\ [][Next]_vars

TypeOK ==
    /\ pc \in {"start", "loaded", "analyzed", "rendered", "done", "failed"}
    /\ fileState \in {"ok", "missing", "malformed"}
    /\ outFile \in {"absent", "stale", "written"}
    /\ image \in {"unused", "fetched", "unreachable"}
    /\ err \in {"", "FileNotFoundError", "JSONDecodeError", "KeyError", "OSError"}

(* ------------------------------ properties ----------------------------- *)
\* analyze_data has returned its summary record.
AnalysisDone == pc \in {"analyzed", "rendered", "done"} \/ image = "unreachable"

\* build_pdf_report has returned.
ReportDone == pc \in {"rendered", "done"}

RECURSIVE SeqSum(_)
\* Sum of a sequence of integers, taken from the right end.
SeqSum(s) == IF Len(s) = 0 THEN 0 ELSE SeqSum(SubSeq(s, 1, Len(s) - 1)) + s[Len(s)]

RECURSIVE CommaList(_)
\* The items of a non-empty sequence of strings separated by ", ".
CommaList(s) ==
    IF Len(s) = 1 THEN s[1]
    ELSE CommaList(SubSeq(s, 1, Len(s) - 1)) \o ", " \o s[Len(s)]

IsPrefix(s, t) == Len(s) <= Len(t) /\ \A i \in 1..Len(s) : s[i] = t[i]

InArticles == Get(data, "articles", <<>>)
InCategories == Get(data, "categories", <<>>)
InReadingList == Get(data, "readingList", <<>>)
InHistory == Get(data, "readingHistory", <<>>)
InPreferences == Get(data, "userPreferences", EmptyRec)

\* C1: top_articles has exactly min(N, 5) entries, each of them an element
\* of the input articles, in descending order of views (missing views = 0),
\* articles of equal views in their input order; no article left out has
\* more views than one that was kept.
C1_TopArticlesStableDescending ==
    AnalysisDone =>
        LET top == analysis.top_articles
            n == Len(InArticles)
        IN  /\ Len(top) = (IF n < 5 THEN n ELSE 5)
            /\ \A i \in 1..Len(top) :
                   /\ top[i].id \in 1..n
                   /\ InArticles[top[i].id] = top[i]
            /\ \A i, j \in 1..Len(top) :
                   i < j =>
                       /\ Get(top[i], "views", 0) >= Get(top[j], "views", 0)
                       /\ Get(top[i], "views", 0) = Get(top[j], "views", 0)
                              => top[i].id < top[j].id
            /\ \A k \in 1..n :
                   (\A i \in 1..Len(top) : top[i].id # k) =>
                       \A i \in 1..Len(top) :
                           Get(top[i], "views", 0) >= Get(InArticles[k], "views", 0)

\* More than five articles were analysed, the sort moved one of them, and
\* two of the kept ones have equal views.
C1_Witness ==
    /\ pc = "analyzed"
    /\ Len(InArticles) > 5
    /\ Len(analysis.top_articles) = 5
    /\ \E i \in 1..5 : analysis.top_articles[i].id # i
    /\ \E i, j \in 1..5 :
           /\ i < j
           /\ Get(analysis.top_articles[i], "views", 0)
                  = Get(analysis.top_articles[j], "views", 0)

\* C2: analyze_data never raises because an optional field is absent, a
\* category record without a name included: once it has been called, the
\* run has not failed with a KeyError and the summary record exists.
C2_NoErrorOnAbsentField ==
    Len(calls) >= 2 => (err # "KeyError" /\ AnalysisDone)

\* C3: reading_list_progress is exactly 0 for an empty readingList and
\* completed / total * 100 otherwise, completed counting the entries with a
\* non-empty completedAt; it lies between 0 and 100; 2 of 4 gives 50.
C3_ReadingListProgress ==
    AnalysisDone =>
        LET total == Len(InReadingList)
            completed == Cardinality({i \in 1..total :
                             /\ "completedAt" \in DOMAIN InReadingList[i]
                             /\ InReadingList[i]["completedAt"] # ""})
            p == analysis.reading_list_progress
        IN  /\ p.den > 0
            /\ total = 0 => p.num = 0
            /\ total > 0 => p.num * total = completed * 100 * p.den
            /\ 0 <= p.num /\ p.num <= 100 * p.den
            /\ (total = 4 /\ completed = 2) => p.num = 50 * p.den

\* Four reading-list items, two of them completed, one with an empty
\* completedAt: the progress is 50.
C3_Witness ==
    /\ pc = "analyzed"
    /\ Len(InReadingList) = 4
    /\ \E i \in 1..4 : Get(InReadingList[i], "completedAt", "x") = ""
    /\ Cardinality({i \in 1..4 : Get(InReadingList[i], "completedAt", "") # ""}) = 2
    /\ analysis.reading_list_progress.num = 50 * analysis.reading_list_progress.den

\* C4: category_counts has exactly one key per distinct category name, its
\* value is the articleCount (0 if missing) of the last input entry of that
\* name, and the keys are in the order the names first occur in the input.
C4_CategoryCountsLastWriteWins ==
    (AnalysisDone /\ \A i \in 1..Len(InCategories) : "name" \in DOMAIN InCategories[i]) =>
        LET cc == analysis.category_counts
            m == Len(InCategories)
            First(k) == CHOOSE i \in 1..m :
                            /\ InCategories[i]["name"] = k
                            /\ \A j \in 1..(i - 1) : InCategories[j]["name"] # k
            Last(k) == CHOOSE i \in 1..m :
                            /\ InCategories[i]["name"] = k
                            /\ \A j \in (i + 1)..m : InCategories[j]["name"] # k
        IN  /\ \A i, j \in 1..Len(cc) : i # j => cc[i].key # cc[j].key
            /\ {cc[i].key : i \in 1..Len(cc)} = {InCategories[i]["name"] : i \in 1..m}
            /\ \A i \in 1..Len(cc) :
                   cc[i].value = Get(InCategories[Last(cc[i].key)], "articleCount", 0)
            /\ \A i, j \in 1..Len(cc) : i < j => First(cc[i].key) < First(cc[j].key)

\* Tech with 3, another name, then Tech with 7: Tech comes first and has 7.
C4_Witness ==
    /\ pc = "analyzed"
    /\ Len(InCategories) = 3
    /\ InCategories[1] = [name |-> "Tech", articleCount |-> 3]
    /\ Get(InCategories[2], "name", "") = "Sports"
    /\ InCategories[3] = [name |-> "Tech", articleCount |-> 7]
    /\ Len(analysis.category_counts) = 2
    /\ analysis.category_counts[1] = [key |-> "Tech", value |-> 7]

\* timeSpent of the i-th readingHistory entry, 0 if missing.
TimeSpentAt(i) == Get(InHistory[i], "timeSpent", 0)

\* C5 (as stated): a negative timeSpent is treated as 0, as a missing one
\* is, so total_time_spent is the sum of the non-negative values and is
\* never negative.
C5_NegativeTreatedAsZero ==
    AnalysisDone =>
        /\ analysis.total_time_spent
               = SeqSum([i \in 1..Len(InHistory) |->
                            IF TimeSpentAt(i) < 0 THEN 0 ELSE TimeSpentAt(i)])
        /\ analysis.total_time_spent >= 0

\* C5 (amended): a missing timeSpent contributes 0, a negative timeSpent
\* contributes its own negative value: total_time_spent is the sum of the
\* non-negative values plus the sum of the negative values.
C5_NegativeCountedAsIs ==
    AnalysisDone =>
        analysis.total_time_spent
            = SeqSum([i \in 1..Len(InHistory) |->
                         IF TimeSpentAt(i) < 0 THEN 0 ELSE TimeSpentAt(i)])
              + SeqSum([i \in 1..Len(InHistory) |->
                         IF TimeSpentAt(i) < 0 THEN TimeSpentAt(i) ELSE 0])

\* A history with a missing, a zero and a negative timeSpent whose total
\* is negative.
C5_Witness ==
    /\ pc = "analyzed"
    /\ \E i \in 1..Len(InHistory) : "timeSpent" \notin DOMAIN InHistory[i]
    /\ \E i \in 1..Len(InHistory) : Get(InHistory[i], "timeSpent", 1) = 0
    /\ \E i \in 1..Len(InHistory) : TimeSpentAt(i) < 0
    /\ analysis.total_time_spent < 0

\* C6: total_time_spent is the sum of timeSpent over all readingHistory
\* entries, a missing timeSpent counting 0, and total_reading_history is
\* the number of entries; [120, 0, 45] gives 165.
C6_TotalTimeSpentIsSum ==
    AnalysisDone =>
        /\ analysis.total_time_spent
               = SeqSum([i \in 1..Len(InHistory) |-> TimeSpentAt(i)])
        /\ analysis.total_reading_history = Len(InHistory)
        /\ InHistory = <<[timeSpent |-> 120], [timeSpent |-> 0], [timeSpent |-> 45]>>
               => analysis.total_time_spent = 165

\* The history [120, missing, 45] has been summed to 165 over 3 entries.
C6_Witness ==
    /\ pc = "analyzed"
    /\ InHistory = <<[timeSpent |-> 120], EmptyRec, [timeSpent |-> 45]>>
    /\ analysis.total_time_spent = 165
    /\ analysis.total_reading_history = 3

\* C7: the stages run in the order load, analyze, render, each one on the
\* completed result of the one before; when load_data fails nothing else
\* is invoked, the output file is neither created nor overwritten and the
\* success line is never printed.
C7_StagesInOrderAbortOnLoadFailure ==
    /\ IsPrefix(calls, <<"load_data", "analyze_data", "build_pdf_report">>)
    /\ IsPrefix(stdout, <<"Loading data...", "Analyzing data...",
                          "Generating PDF report...",
                          "Report generated successfully: news_report.pdf">>)
    /\ Len(calls) >= 2 => (fileState = "ok" /\ data = fileDoc)
    /\ Len(calls) >= 3 => (err # "KeyError" /\ DOMAIN analysis # {})
    /\ outFile = "written" => Len(calls) = 3
    /\ fileState # "ok" =>
           /\ Len(calls) <= 1
           /\ DOMAIN analysis = {}
           /\ report = <<>>
           /\ outFile \in {"absent", "stale"}
           /\ Len(stdout) <= 1

\* The input file was missing: the run has failed after load_data alone
\* and an older report is still in place.
C7_Witness ==
    /\ pc = "failed"
    /\ fileState = "missing"
    /\ err = "FileNotFoundError"
    /\ calls = <<"load_data">>
    /\ outFile = "stale"

\* C8: when the title-page image cannot be fetched the render does not
\* abort: the four data sections are produced in order, the file is
\* written and the run succeeds.
C8_ImageFailureTolerated ==
    image = "unreachable" =>
        /\ pc \in {"rendered", "done"}
        /\ outFile = "written"
        /\ Len(report) = 17
        /\ report[8].kind = "Table" /\ report[11].kind = "Table"
        /\ report[14].kind = "Table" /\ report[17].kind = "Paragraph"

\* C10: the preferences block lists, in this order, the subscribed
\* categories and the subscribed sources (comma-joined, None when empty or
\* absent), the font size (Default when absent), the theme (Not set when
\* absent) and the notifications (Yes when true, otherwise No); an empty
\* userPreferences gives None, None, Default, Not set, No.
C10_PreferencesBlock ==
    ReportDone =>
        LET p == InPreferences
            ListText(k) == IF k \in DOMAIN p /\ Len(p[k]) > 0
                           THEN CommaList(p[k]) ELSE "None"
            block == report[Len(report)].text
        IN  /\ block = "<b>Subscribed Categories:</b> " \o ListText("categories")
                       \o "<br/><b>Subscribed Sources:</b> " \o ListText("sources")
                       \o "<br/><b>Font Size:</b> "
                       \o (IF "fontSize" \in DOMAIN p THEN p["fontSize"] ELSE "Default")
                       \o "<br/><b>Theme:</b> "
                       \o (IF "theme" \in DOMAIN p THEN p["theme"] ELSE "Not set")
                       \o "<br/><b>Notifications Enabled:</b> "
                       \o (IF "notifications" \in DOMAIN p /\ p["notifications"]
                           THEN "Yes" ELSE "No")
                       \o "<br/>"
            /\ DOMAIN p = {} =>
                   block = "<b>Subscribed Categories:</b> None<br/><b>Subscribed Sources:</b> None<br/><b>Font Size:</b> Default<br/><b>Theme:</b> Not set<br/><b>Notifications Enabled:</b> No<br/>"

\* A report was written for preferences with two subscribed categories, a
\* present but empty sources list, no font size and notifications on.
C10_Witness ==
    /\ pc = "done"
    /\ "userPreferences" \in DOMAIN data
    /\ Len(Get(InPreferences, "categories", <<>>)) = 2
    /\ "sources" \in DOMAIN InPreferences /\ InPreferences["sources"] = <<>>
    /\ "fontSize" \notin DOMAIN InPreferences
    /\ Get(InPreferences, "notifications", FALSE)
    /\ report[17].text = "<b>Subscribed Categories:</b> Tech, Sports<br/><b>Subscribed Sources:</b> None<br/><b>Font Size:</b> Default<br/><b>Theme:</b> dark<br/><b>Notifications Enabled:</b> Yes<br/>"

====
